---------------------------- MODULE Spec2Model ----------------------------
(***************************************************************************)
(* A model of WinSparkle's update checker (src/src/updatechecker.cpp) and  *)
(* of the host callback table it reports through (src/unnamed/part_000).   *)
(*                                                                         *)
(* A std::string is modelled as a sequence of one-character strings, so    *)
(* "1.5b3" is <<"1", ".", "5", "b", "3">> and "" is << >>.                 *)
(***************************************************************************)
EXTENDS Integers, Sequences, FiniteSets, TLC

VARIABLES
    \* ---- the version comparison under test -------------------------------
    strImpl,    \* what this build's std::string::compare returns ("unit"/"diff")
    verA,       \* first argument
    verB,       \* second argument
    verC,       \* third string (transitivity)
    cmpPc,      \* "input" before CompareVersions has been called, "done" after
    cmp,        \* the results: [aa, ab, ba, bc, ac]
    \* ---- the checker thread ----------------------------------------------
    mode,       \* "Periodic", "OneShot" or "Manual": the class whose Run() runs
    pc,         \* where the thread is
    ready,      \* SignalReady() has been called
    now,        \* time(NULL)
    lastCheckTime,  \* the stored "LastCheckTime": [set, value]
    turns,      \* turns of the Periodic loop completed
    turn,       \* locals of PeriodicUpdateChecker::Run's current turn
    \* ---- locals of the PerformUpdateCheck in progress ---------------------
    show_dialog,
    url,        \* Settings::GetAppcastURL()
    feed,       \* what Appcast::Load returned
    all,        \* the vector being filtered and sorted
    current_server_version,
    currentVersion,
    appcast,    \* the chosen candidate: [chosen, entry]
    toSkip,     \* what ShouldSkipUpdate read of "SkipThisVersion": [set, value]
    exc,        \* the exception in flight
    log,        \* what the cycle has done so far, in order
    lastCheckOnEntry,   \* "LastCheckTime" as it was when the cycle began
    cycles,     \* calls of PerformUpdateCheck this thread has made
    \* ---- what other threads do to the checker thread ----------------------
    m_terminateEvent,   \* the thread's terminate event has been signalled
    manualPc,   \* where a ManualUpdateChecker running beside this thread is
    \* ---- ApplicationController -------------------------------------------
    ms_cb,      \* the callback table: slot |-> a handler is registered
    ms_csVars,  \* who holds the table's critical section
    hostCall    \* the call of an ApplicationController function in progress

cmpVars == <<strImpl, verA, verB, verC, cmpPc, cmp>>
threadVars == <<mode, pc, ready, now, lastCheckTime, turns, turn>>
threadVarsButPc == <<mode, ready, now, lastCheckTime, turns, turn>>
cycleVars == <<show_dialog, cycles, url, feed, all, current_server_version,
               currentVersion, appcast, toSkip, exc, log, lastCheckOnEntry>>
hostVars == <<ms_cb, ms_csVars, hostCall>>
envVars == <<m_terminateEvent, manualPc, hostVars>>

vars == <<cmpVars, threadVars, cycleVars, envVars>>

-----------------------------------------------------------------------------
(* Bounds *)

\* longest version string of the pairwise comparison specification
MaxLen == 3
\* longest version string of the three-string (ordering) specification
MaxLenOrder == 2
\* most entries of a feed a Manual or OneShot cycle loads
MaxFeed == 2
\* most entries of a feed a Periodic cycle loads
MaxFeedPeriodic == 1
\* most turns of the Periodic loop
MaxTurns == 2
\* most callbacks the host application has registered at one time
MaxRegistered == 2

-----------------------------------------------------------------------------
(* Characters and strings *)

Digits == {"0", "1", "2", "3", "5"}
Letters == {"a", "b", "c", "r"}
Chars == Digits \cup Letters \cup {"."}

\* the characters the enumerated strings are built from
Alphabet == {"0", "1", ".", "a"}

\* the execution character set's code of a character (ASCII)
CharCode(c) ==
    CASE c = "." -> 46
      [] c = "0" -> 48
      [] c = "1" -> 49
      [] c = "2" -> 50
      [] c = "3" -> 51
      [] c = "5" -> 53
      [] c = "a" -> 97
      [] c = "b" -> 98
      [] c = "c" -> 99
      [] c = "r" -> 114

\* enum CharType
Type_Number == "Type_Number"
Type_Period == "Type_Period"
Type_String == "Type_String"

ClassifyChar(c) ==
    IF c = "." THEN Type_Period
    ELSE IF CharCode(c) >= 48 /\ CharCode(c) <= 57    \* '0' .. '9'
         THEN Type_Number
         ELSE Type_String

\* the for loop of SplitVersionString: i is the 1-based index of the next
\* character, s the current segment, list the segments pushed so far
RECURSIVE SplitLoop(_, _, _, _, _)
SplitLoop(version, i, s, prevType, list) ==
    IF i > Len(version) THEN Append(list, s)
    ELSE LET c == version[i]
             newType == ClassifyChar(c)
         IN  IF prevType # newType \/ prevType = Type_Period
             THEN SplitLoop(version, i + 1, <<c>>, newType, Append(list, s))
             ELSE SplitLoop(version, i + 1, Append(s, c), newType, list)

\* mutant: the last part is not added
SplitVersionString_DropsLast(version) ==
    IF version = << >> THEN << >>
    ELSE LET list == SplitLoop(version, 2, <<version[1]>>,
                               ClassifyChar(version[1]), << >>)
         IN  SubSeq(list, 1, Len(list) - 1)

SplitVersionString(version) ==
    IF version = << >> THEN << >>
    ELSE SplitLoop(version, 2, <<version[1]>>, ClassifyChar(version[1]), << >>)

\* atoi of a run of decimal digits; the runs of the bounded inputs stay far
\* below INT_MAX, so no conversion overflows
RECURSIVE atoi(_)
atoi(s) ==
    IF s = << >> THEN 0
    ELSE 10 * atoi(SubSeq(s, 1, Len(s) - 1)) + (CharCode(s[Len(s)]) - CharCode("0"))

Min2(x, y) == IF x < y THEN x ELSE y

\* index of the first position where a and b differ, 0 if none within rlen
RECURSIVE FirstDiff(_, _, _, _)
FirstDiff(a, b, i, rlen) ==
    IF i > rlen THEN 0
    ELSE IF a[i] # b[i] THEN i
    ELSE FirstDiff(a, b, i + 1, rlen)

\* the builds' std::string::compare: the standard fixes only the sign.
\* "unit": traits compare gives -1/0/1 and a size difference gives -1/1.
\* "diff": traits compare gives the difference of the first differing
\*         characters and a size difference is returned as it is.
StrCompareImpls == {"unit", "diff"}

Sign(x) == IF x > 0 THEN 1 ELSE IF x < 0 THEN -1 ELSE 0

StringCompare(a, b) ==
    LET rlen == Min2(Len(a), Len(b))
        d == FirstDiff(a, b, 1, rlen)
        raw == IF d # 0 THEN CharCode(a[d]) - CharCode(b[d])
               ELSE Len(a) - Len(b)
    IN  IF strImpl = "unit" THEN Sign(raw) ELSE raw

-----------------------------------------------------------------------------
(* UpdateChecker::CompareVersions *)

\* what one turn of the comparison loop yields: a returned value, or nothing
\* (the loop goes on to the next pair of parts)
Return(v) == [ret |-> TRUE, val |-> v]
Continue == [ret |-> FALSE, val |-> 0]

\* mutant: the numeric case returns the difference of the two numbers
CompareSameType_Difference(a, b, typeA) ==
    IF typeA = Type_String
    THEN LET result == StringCompare(a, b)
         IN  IF result # 0 THEN Return(result) ELSE Continue
    ELSE IF typeA = Type_Number
    THEN LET intA == atoi(a)
             intB == atoi(b)
         IN  IF intA # intB THEN Return(intA - intB) ELSE Continue
    ELSE Continue

\* both parts of the same type
CompareSameType(a, b, typeA) ==
    IF typeA = Type_String
    THEN LET result == StringCompare(a, b)
         IN  IF result # 0 THEN Return(result) ELSE Continue
    ELSE IF typeA = Type_Number
    THEN LET intA == atoi(a)
             intB == atoi(b)
         IN  IF intA > intB THEN Return(1)
             ELSE IF intA < intB THEN Return(-1)
             ELSE Continue
    ELSE Continue

\* mutant: a number against a period always answers 1
CompareMixedType_AlwaysOne(typeA, typeB) ==
    IF typeA # Type_String /\ typeB = Type_String THEN Return(1)
    ELSE IF typeA = Type_String /\ typeB # Type_String THEN Return(-1)
    ELSE Return(1)

\* mutant: a text fragment wins against a period
CompareMixedType_TextBeatsPeriod(typeA, typeB) ==
    IF typeA = Type_Number THEN Return(1)
    ELSE IF typeB = Type_Number THEN Return(-1)
    ELSE Return(IF typeA = Type_String THEN 1 ELSE -1)

\* components of different types
CompareMixedType(typeA, typeB) ==
    IF typeA # Type_String /\ typeB = Type_String THEN Return(1)
    ELSE IF typeA = Type_String /\ typeB # Type_String THEN Return(-1)
    ELSE Return(IF typeA = Type_Number THEN 1 ELSE -1)

\* the body of the for loop, for the parts a and b
CompareParts(a, b) ==
    LET typeA == ClassifyChar(a[1])
        typeB == ClassifyChar(b[1])
    IN  IF typeA = typeB THEN CompareSameType(a, b, typeA)
        ELSE CompareMixedType(typeA, typeB)

\* mutant: the longer version always wins, whatever its next part is
CompareRemainder_LongerWins(partsA, partsB, n) ==
    IF Len(partsA) = Len(partsB) THEN 0
    ELSE IF Len(partsA) > Len(partsB) THEN 1 ELSE -1

\* the versions are equal up to part n, the common length
CompareRemainder(partsA, partsB, n) ==
    IF Len(partsA) = Len(partsB) THEN 0
    ELSE LET aLonger == Len(partsA) > Len(partsB)
             missingPartType == IF aLonger THEN ClassifyChar(partsA[n + 1][1])
                                ELSE ClassifyChar(partsB[n + 1][1])
             shorterResult == IF aLonger THEN -1 ELSE 1
             longerResult == IF aLonger THEN 1 ELSE -1
         IN  IF missingPartType = Type_String THEN shorterResult
             ELSE longerResult

\* the for loop over the common length; i is 1-based
RECURSIVE CompareLoop(_, _, _, _)
CompareLoop(partsA, partsB, i, n) ==
    IF i > n THEN CompareRemainder(partsA, partsB, n)
    ELSE LET r == CompareParts(partsA[i], partsB[i])
         IN  IF r.ret THEN r.val
             ELSE CompareLoop(partsA, partsB, i + 1, n)

CompareVersions(a, b) ==
    LET partsA == SplitVersionString(a)
        partsB == SplitVersionString(b)
        n == Min2(Len(partsA), Len(partsB))
    IN  CompareLoop(partsA, partsB, 1, n)

-----------------------------------------------------------------------------
(* Settings, feed entries and the collaborators of a check *)

\* a stored config value: ReadConfigValue returns `set` and, if set, `value`
NoValue(v) == [set |-> FALSE, value |-> v]
Stored(v) == [set |-> TRUE, value |-> v]

\* URLs are told apart only by what the security gate looks at
UrlEmpty == "" 
UrlSecure == "https"
UrlInsecure == "http"

\* CheckForInsecureURL(url, purpose) throws for a URL that is not secure
CheckForInsecureURL_Throws(u) == u # UrlSecure

\* struct Appcast, the fields the check reads
Appcast(version, minServer, critical, notes, download) ==
    [Version |-> version, MinServerVersion |-> minServer,
     CriticalUpdate |-> critical, ReleaseNotesURL |-> notes,
     DownloadURL |-> download]

\* Appcast::IsValid
IsValid(a) == a.Version # << >>

kDefaultServerVersion == <<"2", ".", "1", ".", "2">>

\* the versions, minimum server versions and URL pairs of the feeds loaded.
\* Only the chosen entry's URLs are ever read, so every entry of one feed
\* carries the same pair.
FeedVersions == {<< >>, <<"1">>, <<"2">>, <<"3">>}
MinServerVersions == {<< >>, kDefaultServerVersion}
UrlPairs == {<<UrlSecure, UrlSecure>>, <<UrlInsecure, UrlSecure>>,
             <<UrlSecure, UrlInsecure>>, <<UrlEmpty, UrlEmpty>>}

EntryCores == [Version : FeedVersions, MinServerVersion : MinServerVersions,
               CriticalUpdate : BOOLEAN]

WithUrls(cores, pair) ==
    [i \in 1..Len(cores) |->
        Appcast(cores[i].Version, cores[i].MinServerVersion,
                cores[i].CriticalUpdate, pair[1], pair[2])]

Feeds(n) ==
    {<< >>} \cup
    {WithUrls(cores, pair) :
        cores \in UNION {[1..k -> EntryCores] : k \in 1..n}, pair \in UrlPairs}

\* the feeds Appcast::Load may return to a cycle of this thread
LoadableFeeds == Feeds(IF mode = "Periodic" THEN MaxFeedPeriodic ELSE MaxFeed)

AppcastURLs == {UrlEmpty, UrlInsecure, UrlSecure}
AppBuildVersions == {<<"1">>, <<"2">>}
SkipSettings == {NoValue(<< >>), Stored(<<"2">>), Stored(<<"3">>)}

\* what the server answers to GET <host>/getVersion: nothing at all, or a JSON
\* text with an "oethServerVersion" value and an "error_msg" value (each
\* possibly missing, which ParseGetVersionResponseJSON reports as "")
Response(text, version, error) ==
    [empty |-> ~text, oethServerVersion |-> version, error_msg |-> error]

ProbeResponses ==
    { Response(FALSE, << >>, ""),
      Response(TRUE, <<"2">>, ""),
      Response(TRUE, kDefaultServerVersion, ""),
      Response(TRUE, << >>, "404 Not Found"),
      Response(TRUE, << >>, "500 Internal Server Error"),
      Response(TRUE, << >>, "") }

\* value.find("404") != npos
Contains404(msg) == msg \in {"404 Not Found"}

GetServerVersion(json_response) ==
    IF json_response.empty THEN << >>
    ELSE IF json_response.oethServerVersion # << >>
         THEN json_response.oethServerVersion
    ELSE IF json_response.error_msg # ""
         THEN IF Contains404(json_response.error_msg)
              THEN kDefaultServerVersion
              ELSE << >>
    ELSE << >>

-----------------------------------------------------------------------------
(* The algorithms of PerformUpdateCheck *)

\* mutant: an entry asking for exactly the server's version goes too
BelowMinServerVersion_OrEqual(server_version, a) ==
    CompareVersions(server_version, a.MinServerVersion) <= 0

\* the predicate of remove_if: the entry asks for a newer server
BelowMinServerVersion(server_version, a) ==
    CompareVersions(server_version, a.MinServerVersion) < 0

\* all.erase(remove_if(...)): the entries kept, in their order
RECURSIVE EraseBelowMinimum(_, _)
EraseBelowMinimum(list, server_version) ==
    IF list = << >> THEN << >>
    ELSE LET rest == EraseBelowMinimum(Tail(list), server_version)
         IN  IF BelowMinServerVersion(server_version, Head(list))
             THEN rest
             ELSE <<Head(list)>> \o rest

\* the comparator of the sort
VersionLess(a, b) == CompareVersions(a.Version, b.Version) < 0

\* e put into the sorted list behind every entry that is not greater than it
RECURSIVE InsertBehindEquals(_, _)
InsertBehindEquals(sorted, e) ==
    IF sorted = << >> THEN <<e>>
    ELSE IF VersionLess(e, Head(sorted)) THEN <<e>> \o sorted
    ELSE <<Head(sorted)>> \o InsertBehindEquals(Tail(sorted), e)

\* std::stable_sort
RECURSIVE StableSort(_)
StableSort(list) ==
    IF list = << >> THEN << >>
    ELSE InsertBehindEquals(StableSort(SubSeq(list, 1, Len(list) - 1)),
                            list[Len(list)])

\* the predicate of find_if
CriticalAndNewer(current, a) ==
    a.CriticalUpdate /\ CompareVersions(current, a.Version) < 0

\* std::find_if: the index of the first match, Len + 1 for end()
RECURSIVE FindIf(_, _, _)
FindIf(list, current, i) ==
    IF i > Len(list) THEN i
    ELSE IF CriticalAndNewer(current, list[i]) THEN i
    ELSE FindIf(list, current, i + 1)

\* mutant: the latest entry is always the one picked
ChooseAppcast_Latest(list, current) == list[Len(list)]

\* pos != all.end() ? *pos : all.back()
ChooseAppcast(list, current) ==
    LET pos == FindIf(list, current, 1)
    IN  IF pos # Len(list) + 1 THEN list[pos] ELSE list[Len(list)]

\* mutant: an entry of the current version counts as out of date
NotOutdated_Strict(current, a) ==
    ~IsValid(a) \/ CompareVersions(current, a.Version) > 0

\* the version-is-out-of-date test, negated as in the code
NotOutdated(current, a) ==
    ~IsValid(a) \/ CompareVersions(current, a.Version) >= 0

\* mutant: a critical update is skipped like any other
ShouldSkipUpdate_IgnoreCritical(m, a, skipSetting) ==
    IF m = "Manual" THEN FALSE
    ELSE IF skipSetting.set THEN skipSetting.value = a.Version
    ELSE FALSE

\* mutant: any stored version makes the update skipped
ShouldSkipUpdate_AnyStored(m, a, skipSetting) ==
    IF m = "Manual" THEN FALSE
    ELSE IF a.CriticalUpdate THEN FALSE
    ELSE skipSetting.set

\* UpdateChecker::ShouldSkipUpdate, with ManualUpdateChecker's override
ShouldSkipUpdate(m, a, skipSetting) ==
    IF m = "Manual" THEN FALSE
    ELSE IF a.CriticalUpdate THEN FALSE
    ELSE IF skipSetting.set THEN skipSetting.value = a.Version
    ELSE FALSE

-----------------------------------------------------------------------------
(* ApplicationController: the host's callback table *)

\* the static callback pointers; ms_cb[slot] is TRUE when the pointer is set
Slots ==
    {"ms_cbGetAvailableHost", "ms_cbError", "ms_cbIsReadyToShutdown",
     "ms_cbRequestShutdown", "ms_cbDidFindUpdate", "ms_cbAppcastXmlUnavailable",
     "ms_cbDownloadProgress", "ms_cbDownloadComplete", "ms_cbDownloadFailed",
     "ms_cbDidNotFindUpdate", "ms_cbUpdateCancelled", "ms_cbUpdateSkipped",
     "ms_cbUpdatePostponed", "ms_cbUpdateDismissed", "ms_cbUserRunInstaller"}

\* the notifications: void functions that pass an event to its callback
Notifiers ==
    {"NotifyUpdateError", "NotifyUpdateFound", "NotifyAppcastXmlUnavailable",
     "NotifyDownloadProgress", "NotifyDownloadComplete", "NotifyDownloadFailed",
     "NotifyUpdateNotFound", "NotifyUpdateCancelled", "NotifyUpdateSkipped",
     "NotifyUpdatePostponed", "NotifyUpdateDismissed"}

HostFunctions ==
    {"IsReadyToShutdown", "RequestShutdown", "UserRunInstallerCallback",
     "GetAvailableHost"} \cup Notifiers

\* the pointer each function reads
SlotOf(fn) ==
    CASE fn = "IsReadyToShutdown" -> "ms_cbIsReadyToShutdown"
      [] fn = "RequestShutdown" -> "ms_cbRequestShutdown"
      [] fn = "NotifyUpdateError" -> "ms_cbError"
      [] fn = "NotifyUpdateFound" -> "ms_cbDidFindUpdate"
      [] fn = "NotifyAppcastXmlUnavailable" -> "ms_cbAppcastXmlUnavailable"
      [] fn = "NotifyDownloadProgress" -> "ms_cbDownloadProgress"
      [] fn = "NotifyDownloadComplete" -> "ms_cbDownloadComplete"
      [] fn = "NotifyDownloadFailed" -> "ms_cbDownloadFailed"
      [] fn = "NotifyUpdateNotFound" -> "ms_cbDidNotFindUpdate"
      [] fn = "NotifyUpdateCancelled" -> "ms_cbUpdateCancelled"
      [] fn = "NotifyUpdateSkipped" -> "ms_cbUpdateSkipped"
      [] fn = "NotifyUpdatePostponed" -> "ms_cbUpdatePostponed"
      [] fn = "NotifyUpdateDismissed" -> "ms_cbUpdateDismissed"
      [] fn = "UserRunInstallerCallback" -> "ms_cbUserRunInstaller"
      [] fn = "GetAvailableHost" -> "ms_cbGetAvailableHost"

\* the functions whose body begins with CriticalSectionLocker lock(ms_csVars)
TakesLock(fn) == fn # "UserRunInstallerCallback"

\* the critical section's owner
NoOwner == "none"
Caller == "caller"

\* what a callback of the host may return
HandlerReturns == {0, 1, 2}

\* what a function returned: nothing, a bool, an int, a string, or what a
\* call with undefined behaviour leaves
RetVoid == [kind |-> "void", val |-> 0]
RetBool(b) == [kind |-> "bool", val |-> IF b THEN 1 ELSE 0]
RetInt(n) == [kind |-> "int", val |-> n]
RetString == [kind |-> "string", val |-> 0]
RetUndefined == [kind |-> "undefined", val |-> 0]

NoCall == [fn |-> "none", pc |-> "None", seen |-> FALSE, invoked |-> 0,
           handlerRet |-> 0, ret |-> RetVoid]

\* the table after static initialisation: every pointer NULL, no call made
IdleHost ==
    /\ ms_cb = [s \in Slots |-> FALSE]
    /\ ms_csVars = NoOwner
    /\ hostCall = NoCall

\* mutant: only a handler's answer 1 counts as ready
IsReadyToShutdown_OnlyOne(r) == r = 1

\* (*ms_cbIsReadyToShutdown)() == 0 ? false : true
IsReadyToShutdown_Result(r) == IF r = 0 THEN FALSE ELSE TRUE

\* what fn returns after its callback returned r
ResultWithHandler(fn, r) ==
    IF fn = "IsReadyToShutdown" THEN RetBool(IsReadyToShutdown_Result(r))
    ELSE IF fn = "UserRunInstallerCallback" THEN RetInt(r)
    ELSE IF fn = "GetAvailableHost" THEN RetString
    ELSE RetVoid

\* what fn returns when it found its pointer NULL. GetAvailableHost flows off
\* the end of a function returning std::string: undefined behaviour.
ResultWithoutHandler(fn) ==
    IF fn = "IsReadyToShutdown" THEN RetBool(TRUE)
    ELSE IF fn = "UserRunInstallerCallback" THEN RetInt(0)
    ELSE IF fn = "GetAvailableHost" THEN RetUndefined
    ELSE RetVoid

\* win_sparkle_set_*_callback on a thread of the host: the pointer is set, or
\* cleared, under the critical section
SetCallback(slot, registered) ==
    /\ ms_csVars = NoOwner
    /\ ms_cb[slot] # registered
    /\ ms_cb' = [ms_cb EXCEPT ![slot] = registered]
    /\ Cardinality({t \in Slots : ms_cb'[t]}) <= MaxRegistered
    /\ UNCHANGED <<cmpVars, threadVars, cycleVars, m_terminateEvent, manualPc,
                   ms_csVars, hostCall>>

\* a thread calls one of ApplicationController's functions
HostCall(fn) ==
    /\ hostCall.pc \in {"None", "Returned"}
    /\ hostCall' = [NoCall EXCEPT !.fn = fn,
                                  !.pc = IF TakesLock(fn) THEN "Lock" ELSE "Test"]
    /\ UNCHANGED <<cmpVars, threadVars, cycleVars, m_terminateEvent, manualPc,
                   ms_cb, ms_csVars>>

\* CriticalSectionLocker lock(ms_csVars)
HostLock ==
    /\ hostCall.pc = "Lock"
    /\ ms_csVars = NoOwner
    /\ ms_csVars' = Caller
    /\ hostCall' = [hostCall EXCEPT !.pc = "Test"]
    /\ UNCHANGED <<cmpVars, threadVars, cycleVars, m_terminateEvent, manualPc,
                   ms_cb>>

\* if ( ms_cb... )
HostTest ==
    /\ hostCall.pc = "Test"
    /\ hostCall' = [hostCall EXCEPT !.seen = ms_cb[SlotOf(hostCall.fn)],
                                    !.pc = IF ms_cb[SlotOf(hostCall.fn)]
                                           THEN "Invoke" ELSE "Default"]
    /\ UNCHANGED <<cmpVars, threadVars, cycleVars, m_terminateEvent, manualPc,
                   ms_cb, ms_csVars>>

\* (*ms_cb...)(...), the return and the locker's destructor. The pointer is
\* read again for the call: were it NULL by now, the call through it is
\* undefined.
HostInvoke ==
    /\ hostCall.pc = "Invoke"
    /\ IF ms_cb[SlotOf(hostCall.fn)]
       THEN \E r \in HandlerReturns :
               hostCall' = [hostCall EXCEPT
                               !.invoked = hostCall.invoked + 1,
                               !.handlerRet = r,
                               !.ret = ResultWithHandler(hostCall.fn, r),
                               !.pc = "Returned"]
       ELSE hostCall' = [hostCall EXCEPT !.ret = RetUndefined, !.pc = "Returned"]
    /\ ms_csVars' = IF ms_csVars = Caller THEN NoOwner ELSE ms_csVars
    /\ UNCHANGED <<cmpVars, threadVars, cycleVars, m_terminateEvent, manualPc,
                   ms_cb>>

\* the pointer was NULL: the locker's destructor and the default
HostDefault ==
    /\ hostCall.pc = "Default"
    /\ hostCall' = [hostCall EXCEPT !.ret = ResultWithoutHandler(hostCall.fn),
                                    !.pc = "Returned"]
    /\ ms_csVars' = IF ms_csVars = Caller THEN NoOwner ELSE ms_csVars
    /\ UNCHANGED <<cmpVars, threadVars, cycleVars, m_terminateEvent, manualPc,
                   ms_cb>>

-----------------------------------------------------------------------------
(* The checker thread: values of its variables *)

Modes == {"Periodic", "OneShot", "Manual"}
StartTimes == {7200}
\* win_sparkle_get_update_check_interval(): an hour, and 5,000,000 s (58 days)
Intervals == {3600, 5000000}

NoAppcast == [chosen |-> FALSE, entry |-> Appcast(<< >>, << >>, FALSE, UrlEmpty, UrlEmpty)]
Chosen(a) == [chosen |-> TRUE, entry |-> a]

IdleTurn == [checkUpdates |-> FALSE, currentTime |-> 0, lastCheck |-> 0,
             interval |-> 0, cycles |-> 0, sleepTimeInSeconds |-> 0]

\* the thread and cycle variables while only the comparison is exercised
IdleThread ==
    /\ mode = "OneShot" /\ pc = "Done" /\ ready = FALSE /\ now = 0
    /\ lastCheckTime = NoValue(0) /\ turns = 0 /\ turn = IdleTurn
    /\ show_dialog = FALSE /\ url = UrlEmpty /\ feed = << >> /\ all = << >>
    /\ current_server_version = << >> /\ currentVersion = << >>
    /\ appcast = NoAppcast /\ toSkip = NoValue(<< >>) /\ exc = "none"
    /\ log = << >> /\ lastCheckOnEntry = lastCheckTime /\ cycles = 0
    /\ m_terminateEvent = FALSE /\ manualPc = "None"
    /\ IdleHost

\* the comparison variables while the thread runs; the versions a cycle
\* handles hold no text fragment, so std::string::compare is never reached
IdleCompare ==
    /\ strImpl = "unit" /\ verA = << >> /\ verB = << >> /\ verC = << >>
    /\ cmpPc = "idle" /\ cmp = [aa |-> 0, ab |-> 0, ba |-> 0, bc |-> 0, ac |-> 0]

\* the timeout WaitUntilSignaled gets: sleepTimeInSeconds * 1000 in 32-bit
\* unsigned arithmetic, as whole seconds and the milliseconds left over.
\* Computed in 16-bit halves: the product itself can pass 2^31.
WaitTimeout(sleepTimeInSeconds) ==
    LET hi == sleepTimeInSeconds \div 65536
        lo == sleepTimeInSeconds % 65536
        p0 == lo * 1000
        low16 == p0 % 65536
        high16 == (hi * 1000 + (p0 \div 65536)) % 65536
        rest == high16 * 536 + low16
    IN  [sec |-> high16 * 65 + (rest \div 1000), ms |-> rest % 1000]

-----------------------------------------------------------------------------
(* UpdateChecker::PerformUpdateCheck, statement by statement *)

\* the call PerformUpdateCheck(flag): fresh locals
EnterPerformUpdateCheck(flag) ==
    /\ pc' = "CheckFeedURL"
    /\ show_dialog' = flag
    /\ url' = UrlEmpty /\ feed' = << >> /\ all' = << >>
    /\ current_server_version' = << >> /\ currentVersion' = << >>
    /\ appcast' = NoAppcast /\ toSkip' = NoValue(<< >>) /\ exc' = "none"
    /\ log' = << >>
    /\ lastCheckOnEntry' = lastCheckTime
    /\ cycles' = cycles + 1

Throw(e) == exc' = e /\ pc' = "Catch"

\* mutant: the feed URL is not put through the gate
CheckFeedURL_NoGate ==
    /\ pc = "CheckFeedURL"
    /\ \E u \in AppcastURLs :
        /\ url' = u
        /\ IF u = UrlEmpty
           THEN Throw("std::exception") /\ log' = log
           ELSE pc' = "FetchFeed" /\ exc' = exc /\ log' = log
    /\ UNCHANGED <<cmpVars, envVars, threadVarsButPc, show_dialog, cycles, lastCheckOnEntry,
                   feed, all, current_server_version, currentVersion, appcast,
                   toSkip>>

\* lines 339-342: the feed URL is read, must be there and must pass the gate
CheckFeedURL ==
    /\ pc = "CheckFeedURL"
    /\ \E u \in AppcastURLs :
        /\ url' = u
        /\ IF u = UrlEmpty
           THEN Throw("std::exception") /\ log' = log
           ELSE IF CheckForInsecureURL_Throws(u)
           THEN Throw("std::exception") /\ log' = Append(log, "reject:feed")
           ELSE pc' = "FetchFeed" /\ exc' = exc /\ log' = Append(log, "pass:feed")
    /\ UNCHANGED <<cmpVars, envVars, threadVarsButPc, show_dialog, cycles, lastCheckOnEntry, feed, all,
                   current_server_version, currentVersion, appcast, toSkip>>

\* lines 344-347: DownloadFile, then Appcast::Load
FetchFeed ==
    /\ pc = "FetchFeed"
    /\ log' = Append(log, "fetch:feed")
    /\ \/ /\ \E e \in {"DownloadException", "std::exception", "unknown"} : Throw(e)
          /\ UNCHANGED <<feed, all>>
       \/ /\ \E f \in LoadableFeeds : feed' = f /\ all' = f
          /\ pc' = "ProbeServer"
          /\ exc' = exc
    /\ UNCHANGED <<cmpVars, envVars, threadVarsButPc, show_dialog, cycles, lastCheckOnEntry, url,
                   current_server_version, currentVersion, appcast, toSkip>>

\* line 350: GetServerVersion()
ProbeServer ==
    /\ pc = "ProbeServer"
    /\ \E r \in ProbeResponses : current_server_version' = GetServerVersion(r)
    /\ log' = Append(log, "fetch:probe")
    /\ pc' = "FilterFeed"
    /\ UNCHANGED <<cmpVars, envVars, threadVarsButPc, show_dialog, cycles, lastCheckOnEntry, url, feed, all,
                   currentVersion, appcast, toSkip, exc>>

\* mutant: the time of the check is recorded also when nothing is left
FilterFeed_Stamps ==
    /\ pc = "FilterFeed"
    /\ all' = EraseBelowMinimum(all, current_server_version)
    /\ IF all' = << >>
       THEN /\ log' = Append(Append(log, "write:LastCheckTime"), "NoUpdates")
            /\ lastCheckTime' = Stored(now)
            /\ pc' = "Returned"
       ELSE log' = log /\ lastCheckTime' = lastCheckTime /\ pc' = "SortFeed"
    /\ UNCHANGED <<cmpVars, envVars, mode, ready, now, turns, turn, show_dialog, cycles,
                   lastCheckOnEntry, url, feed, current_server_version,
                   currentVersion, appcast, toSkip, exc>>

\* lines 351-363: the entries below the server's version go; nothing left
\* means no update
FilterFeed ==
    /\ pc = "FilterFeed"
    /\ all' = EraseBelowMinimum(all, current_server_version)
    /\ IF all' = << >>
       THEN log' = Append(log, "NoUpdates") /\ pc' = "Returned"
       ELSE log' = log /\ pc' = "SortFeed"
    /\ UNCHANGED <<cmpVars, envVars, threadVarsButPc, show_dialog, cycles, lastCheckOnEntry, url, feed,
                   current_server_version, currentVersion, appcast, toSkip, exc>>

\* lines 366-370; feed keeps the vector as it was before the sort
SortFeed ==
    /\ pc = "SortFeed"
    /\ feed' = all
    /\ all' = StableSort(all)
    /\ pc' = "SelectCandidate"
    /\ UNCHANGED <<cmpVars, envVars, threadVarsButPc, show_dialog, cycles, lastCheckOnEntry, url,
                   current_server_version, currentVersion, appcast, toSkip,
                   exc, log>>

\* lines 372-378
SelectCandidate ==
    /\ pc = "SelectCandidate"
    /\ \E v \in AppBuildVersions :
        /\ currentVersion' = v
        /\ appcast' = Chosen(ChooseAppcast(all, v))
    /\ pc' = "GateCandidate"
    /\ UNCHANGED <<cmpVars, envVars, threadVarsButPc, show_dialog, cycles, lastCheckOnEntry, url, feed, all,
                   current_server_version, toSkip, exc, log>>

\* lines 380-383: the candidate's URLs, those that are not empty, pass the
\* gate one after the other; the vector is not read again
GateCandidate ==
    /\ pc = "GateCandidate"
    /\ LET notes == appcast.entry.ReleaseNotesURL
           download == appcast.entry.DownloadURL
           afterNotes == IF notes = UrlEmpty THEN log
                         ELSE IF CheckForInsecureURL_Throws(notes)
                         THEN Append(log, "reject:notes")
                         ELSE Append(log, "pass:notes")
       IN  IF notes # UrlEmpty /\ CheckForInsecureURL_Throws(notes)
           THEN Throw("std::exception") /\ log' = afterNotes
           ELSE IF download # UrlEmpty /\ CheckForInsecureURL_Throws(download)
           THEN Throw("std::exception") /\ log' = Append(afterNotes, "reject:download")
           ELSE /\ pc' = "WriteLastCheckTime"
                /\ exc' = exc
                /\ log' = IF download = UrlEmpty THEN afterNotes
                          ELSE Append(afterNotes, "pass:download")
    /\ feed' = << >>
    /\ all' = << >>
    /\ UNCHANGED <<cmpVars, envVars, threadVarsButPc, show_dialog, cycles, lastCheckOnEntry, url,
                   current_server_version, currentVersion, appcast, toSkip>>

\* line 385
WriteLastCheckTime ==
    /\ pc = "WriteLastCheckTime"
    /\ lastCheckTime' = Stored(now)
    /\ log' = Append(log, "write:LastCheckTime")
    /\ pc' = "JudgeOutdated"
    /\ UNCHANGED <<cmpVars, envVars, mode, ready, now, turns, turn, show_dialog, cycles, lastCheckOnEntry, url,
                   feed, all, current_server_version, currentVersion, appcast,
                   toSkip, exc>>

\* mutant: the return after NotifyNoUpdates is missing
JudgeOutdated_FallsThrough ==
    /\ pc = "JudgeOutdated"
    /\ IF NotOutdated(currentVersion, appcast.entry)
       THEN log' = Append(log, "NoUpdates") /\ pc' = "SkipOrNotify"
       ELSE log' = log /\ pc' = "SkipOrNotify"
    /\ UNCHANGED <<cmpVars, envVars, threadVarsButPc, show_dialog, cycles,
                   lastCheckOnEntry, url, feed, all, current_server_version,
                   currentVersion, appcast, toSkip, exc>>

\* lines 387-393
JudgeOutdated ==
    /\ pc = "JudgeOutdated"
    /\ IF NotOutdated(currentVersion, appcast.entry)
       THEN log' = Append(log, "NoUpdates") /\ pc' = "Returned"
       ELSE log' = log /\ pc' = "SkipOrNotify"
    /\ UNCHANGED <<cmpVars, envVars, threadVarsButPc, show_dialog, cycles, lastCheckOnEntry, url, feed, all,
                   current_server_version, currentVersion, appcast, toSkip, exc>>

\* lines 395-401; toSkip is what "SkipThisVersion" holds at this moment
SkipOrNotify ==
    /\ pc = "SkipOrNotify"
    /\ \E stored \in SkipSettings :
        /\ toSkip' = stored
        /\ IF ShouldSkipUpdate(mode, appcast.entry, stored) /\ ~show_dialog
           THEN log' = log
           ELSE log' = Append(log, "UpdateAvailable")
    /\ pc' = "Returned"
    /\ UNCHANGED <<cmpVars, envVars, threadVarsButPc, show_dialog, cycles, lastCheckOnEntry, url, feed, all,
                   current_server_version, currentVersion, appcast, exc>>

\* lines 403-425: the three handlers; each rethrows
Catch ==
    /\ pc = "Catch"
    /\ log' = IF exc = "unknown" \/ show_dialog
              THEN Append(log, "UpdateError")
              ELSE log
    /\ pc' = "Threw"
    /\ UNCHANGED <<cmpVars, envVars, threadVarsButPc, show_dialog, cycles, lastCheckOnEntry, url, feed, all,
                   current_server_version, currentVersion, appcast, toSkip, exc>>

-----------------------------------------------------------------------------
(* The Run() methods *)

\* mutant: Run() goes on without signalling readiness
SignalReady_Skipped ==
    /\ pc = "Run"
    /\ ready' = ready
    /\ pc' = IF mode = "Periodic" THEN "Loop" ELSE "Call"
    /\ UNCHANGED <<cmpVars, envVars, mode, now, lastCheckTime, turns, turn, cycleVars>>

\* SignalReady(), the first statement of every Run()
SignalReady ==
    /\ pc = "Run"
    /\ ready' = TRUE
    /\ pc' = IF mode = "Periodic" THEN "Loop" ELSE "Call"
    /\ UNCHANGED <<cmpVars, envVars, mode, now, lastCheckTime, turns, turn, cycleVars>>

\* OneShotUpdateChecker::Run and ManualUpdateChecker::Run: the one call
CallOnce ==
    /\ pc = "Call"
    /\ EnterPerformUpdateCheck(mode = "Manual")
    /\ UNCHANGED <<cmpVars, envVars, threadVarsButPc>>

\* PeriodicUpdateChecker::Run, lines 451-478: one turn up to the call of
\* PerformUpdateCheck or, with no check to make, up to the wait
LoopTurn ==
    /\ pc = "Loop"
    /\ turns < MaxTurns
    /\ \E checkUpdates \in BOOLEAN :
        IF ~checkUpdates
        THEN /\ turn' = [checkUpdates |-> FALSE, currentTime |-> 0,
                         lastCheck |-> 0, interval |-> 0, cycles |-> 0,
                         sleepTimeInSeconds |-> 60 * 60]
             /\ pc' = "Wait"
             /\ UNCHANGED cycleVars
        ELSE \E interval \in Intervals :
             LET currentTime == now
                 lastCheck == IF lastCheckTime.set THEN lastCheckTime.value ELSE 0
                 nextCheck == lastCheck + interval
             IN  IF currentTime >= nextCheck
                 THEN /\ turn' = [checkUpdates |-> TRUE, currentTime |-> currentTime,
                                  lastCheck |-> lastCheck, interval |-> interval,
                                  cycles |-> 1, sleepTimeInSeconds |-> 60 * 60]
                      /\ EnterPerformUpdateCheck(FALSE)
                 ELSE /\ turn' = [checkUpdates |-> TRUE, currentTime |-> currentTime,
                                  lastCheck |-> lastCheck, interval |-> interval,
                                  cycles |-> 0,
                                  sleepTimeInSeconds |-> nextCheck - currentTime]
                      /\ pc' = "Wait"
                      /\ UNCHANGED cycleVars
    /\ UNCHANGED <<cmpVars, envVars, mode, ready, now, lastCheckTime, turns>>

\* PerformUpdateCheck returned: line 472 in the Periodic loop, the end of
\* Run() for the other two
CycleReturned ==
    /\ pc = "Returned"
    /\ IF mode = "Periodic"
       THEN /\ turn' = [turn EXCEPT !.sleepTimeInSeconds = turn.interval]
            /\ pc' = "Wait"
       ELSE /\ turn' = turn
            /\ pc' = "Done"
    /\ UNCHANGED <<cmpVars, envVars, mode, ready, now, lastCheckTime, turns, cycleVars>>

\* PerformUpdateCheck rethrew: no Run() has a handler, the exception leaves it
CycleThrew ==
    /\ pc = "Threw"
    /\ pc' = "Dead"
    /\ UNCHANGED <<cmpVars, envVars, threadVarsButPc, cycleVars>>

\* Thread::TerminateAndJoin of another thread: m_terminateEvent.Signal().
\* It is raised while the Periodic thread waits or is about to begin a turn.
SignalTerminate ==
    /\ mode = "Periodic"
    /\ pc \in {"Loop", "Wait"}
    /\ ~m_terminateEvent
    /\ m_terminateEvent' = TRUE
    /\ UNCHANGED <<cmpVars, manualPc, hostVars, threadVars, cycleVars>>

\* line 480: m_terminateEvent.WaitUntilSignaled(sleepTimeInSeconds * 1000).
\* With the event signalled the wait returns at once, otherwise it runs to
\* its timeout. What it returns is not looked at, and the statement is the
\* last of the body of while (true): the next turn follows either way.
Wait ==
    /\ pc = "Wait"
    /\ now' = IF m_terminateEvent THEN now
              ELSE now + WaitTimeout(turn.sleepTimeInSeconds).sec
    /\ turns' = turns + 1
    /\ pc' = "Loop"
    /\ UNCHANGED <<cmpVars, envVars, mode, ready, lastCheckTime, turn, cycleVars>>

Init ==
    /\ IdleCompare
    /\ mode \in Modes
    /\ pc = "Run"
    /\ ready = FALSE
    /\ now \in StartTimes
    /\ lastCheckTime \in {NoValue(0), Stored(now - 1800), Stored(now - 3600)}
    /\ turns = 0
    /\ turn = IdleTurn
    /\ show_dialog = FALSE /\ url = UrlEmpty /\ feed = << >> /\ all = << >>
    /\ current_server_version = << >> /\ currentVersion = << >>
    /\ appcast = NoAppcast /\ toSkip = NoValue(<< >>) /\ exc = "none"
    /\ log = << >> /\ lastCheckOnEntry = lastCheckTime /\ cycles = 0
    /\ m_terminateEvent = FALSE
    /\ manualPc = "None"
    /\ IdleHost

Next ==
    \/ SignalReady
    \/ CallOnce
    \/ LoopTurn
    \/ CheckFeedURL
    \/ FetchFeed
    \/ ProbeServer
    \/ FilterFeed
    \/ SortFeed
    \/ SelectCandidate
    \/ GateCandidate
    \/ WriteLastCheckTime
    \/ JudgeOutdated
    \/ SkipOrNotify
    \/ Catch
    \/ CycleReturned
    \/ CycleThrew
    \/ Wait

Spec == Init /\ [][Next]_vars

\* the thread with another thread that may signal its terminate event
NextTerminate ==
    \/ Next
    \/ SignalTerminate

SpecTerminate == Init /\ [][NextTerminate]_vars

-----------------------------------------------------------------------------
(* A manual check running beside the Periodic thread *)

\* the stored time of the last check, 0 when there is none (line 463)
StoredOrZero(setting) == IF setting.set THEN setting.value ELSE 0

\* lines 455-464 of the Periodic turn: the settings are read into the locals.
\* With checking off the turn goes on to its wait.
ReadSettings ==
    /\ pc = "Loop"
    /\ turns < MaxTurns
    /\ \E checkUpdates \in BOOLEAN :
        IF ~checkUpdates
        THEN /\ turn' = [checkUpdates |-> FALSE, currentTime |-> 0,
                         lastCheck |-> 0, interval |-> 0, cycles |-> 0,
                         sleepTimeInSeconds |-> 60 * 60]
             /\ pc' = "Wait"
        ELSE \E interval \in Intervals :
             /\ turn' = [checkUpdates |-> TRUE, currentTime |-> now,
                         lastCheck |-> StoredOrZero(lastCheckTime),
                         interval |-> interval, cycles |-> 0,
                         sleepTimeInSeconds |-> 60 * 60]
             /\ pc' = "Decide"
    /\ UNCHANGED <<cmpVars, envVars, mode, ready, now, lastCheckTime, turns,
                   cycleVars>>

\* lines 467-478: the decision on the locals, and the call when it is time
DecideTurn ==
    /\ pc = "Decide"
    /\ LET nextCheck == turn.lastCheck + turn.interval
       IN  IF turn.currentTime >= nextCheck
           THEN /\ turn' = [turn EXCEPT !.cycles = 1]
                /\ EnterPerformUpdateCheck(FALSE)
           ELSE /\ turn' = [turn EXCEPT !.sleepTimeInSeconds =
                                            nextCheck - turn.currentTime]
                /\ pc' = "Wait"
                /\ UNCHANGED cycleVars
    /\ UNCHANGED <<cmpVars, envVars, mode, ready, now, lastCheckTime, turns>>

\* ManualUpdateChecker::Run on its own thread, up to line 383 of its
\* PerformUpdateCheck(true): the check ends there, or it goes on to line 385
ManualRun ==
    /\ manualPc = "Run"
    /\ manualPc' \in {"WriteLastCheckTime", "Done"}
    /\ UNCHANGED <<cmpVars, threadVars, cycleVars, m_terminateEvent, hostVars>>

\* line 385 of the manual check; what follows touches nothing shared
ManualWriteLastCheckTime ==
    /\ manualPc = "WriteLastCheckTime"
    /\ lastCheckTime' = Stored(now)
    /\ manualPc' = "Done"
    /\ UNCHANGED <<cmpVars, mode, pc, ready, now, turns, turn, cycleVars,
                   m_terminateEvent, hostVars>>

InitRace ==
    /\ IdleCompare
    /\ IdleHost
    /\ mode = "Periodic"
    /\ pc = "Run"
    /\ ready = FALSE
    /\ now \in StartTimes
    /\ lastCheckTime \in {NoValue(0), Stored(now - 1800), Stored(now - 3600)}
    /\ turns = 0
    /\ turn = IdleTurn
    /\ show_dialog = FALSE /\ url = UrlEmpty /\ feed = << >> /\ all = << >>
    /\ current_server_version = << >> /\ currentVersion = << >>
    /\ appcast = NoAppcast /\ toSkip = NoValue(<< >>) /\ exc = "none"
    /\ log = << >> /\ lastCheckOnEntry = lastCheckTime /\ cycles = 0
    /\ m_terminateEvent = FALSE
    /\ manualPc = "Run"

NextRace ==
    \/ SignalReady
    \/ ReadSettings
    \/ DecideTurn
    \/ CheckFeedURL
    \/ FetchFeed
    \/ ProbeServer
    \/ FilterFeed
    \/ SortFeed
    \/ SelectCandidate
    \/ GateCandidate
    \/ WriteLastCheckTime
    \/ JudgeOutdated
    \/ SkipOrNotify
    \/ Catch
    \/ CycleReturned
    \/ CycleThrew
    \/ Wait
    \/ ManualRun
    \/ ManualWriteLastCheckTime

SpecRace == InitRace /\ [][NextRace]_vars

-----------------------------------------------------------------------------
(* The comparison applied to bounded inputs *)

RECURSIVE StringsUpTo(_)
StringsUpTo(n) ==
    IF n = 0 THEN {<< >>}
    ELSE LET shorter == StringsUpTo(n - 1)
         IN  shorter \cup {Append(s, c) : s \in shorter, c \in Alphabet}

\* the version strings the specification's examples name
Literals ==
    { <<"1", ".", "2", ".", "0">>, <<"1", ".", "2", "r", "c", "1">>,
      <<"1", ".", "5">>, <<"1", ".", "5", "b", "3">>,
      <<"1", ".", "5", ".", "1">>,
      <<"2", ".", "0", ".", "0">>, <<"2", ".", "0">> }

Versions == StringsUpTo(MaxLen) \cup Literals
OrderVersions == StringsUpTo(MaxLenOrder)

NoCmp == [aa |-> 0, ab |-> 0, ba |-> 0, bc |-> 0, ac |-> 0]

\* a caller compares the strings it holds
CallCompare ==
    /\ cmpPc = "input"
    /\ cmpPc' = "done"
    /\ cmp' = [aa |-> CompareVersions(verA, verA),
               ab |-> CompareVersions(verA, verB),
               ba |-> CompareVersions(verB, verA),
               bc |-> CompareVersions(verB, verC),
               ac |-> CompareVersions(verA, verC)]
    /\ UNCHANGED <<strImpl, verA, verB, verC, threadVars, cycleVars, envVars>>

InitCompare ==
    /\ IdleThread
    /\ strImpl \in StrCompareImpls
    /\ verA \in Versions
    /\ verB \in Versions
    /\ verC = << >>
    /\ cmpPc = "input"
    /\ cmp = NoCmp

InitOrder ==
    /\ IdleThread
    /\ strImpl \in StrCompareImpls
    /\ verA \in OrderVersions
    /\ verB \in OrderVersions
    /\ verC \in OrderVersions
    /\ cmpPc = "input"
    /\ cmp = NoCmp

NextCompare == CallCompare

SpecCompare == InitCompare /\ [][NextCompare]_vars
SpecOrder == InitOrder /\ [][NextCompare]_vars

-----------------------------------------------------------------------------
(* The callback table used by the host application's threads *)

InitHost ==
    /\ IdleCompare
    /\ IdleThread

NextHost ==
    \/ \E slot \in Slots, registered \in BOOLEAN : SetCallback(slot, registered)
    \/ \E fn \in HostFunctions : HostCall(fn)
    \/ HostLock
    \/ HostTest
    \/ HostInvoke
    \/ HostDefault

SpecHost == InitHost /\ [][NextHost]_vars

-----------------------------------------------------------------------------
(* Claims about the version order *)

\* two parts that the comparison loop passes over as equal
PartsEqual(x, y) ==
    /\ ClassifyChar(x[1]) = ClassifyChar(y[1])
    /\ \/ ClassifyChar(x[1]) = Type_Period
       \/ ClassifyChar(x[1]) = Type_Number /\ atoi(x) = atoi(y)
       \/ ClassifyChar(x[1]) = Type_String /\ x = y

\* the first position, within the common length, whose parts are not equal
\* (0 if there is none)
DecidingIndex(pa, pb) ==
    LET n == Min2(Len(pa), Len(pb))
        differing == {i \in 1..n : ~PartsEqual(pa[i], pb[i])}
    IN  IF differing = {} THEN 0
        ELSE CHOOSE i \in differing : \A j \in differing : i <= j

\* x sorts before y as a sequence of character codes
LexBefore(x, y) ==
    \/ \E k \in 1..Min2(Len(x), Len(y)) :
          /\ \A j \in 1..(k - 1) : x[j] = y[j]
          /\ CharCode(x[k]) < CharCode(y[k])
    \/ Len(x) < Len(y) /\ \A j \in 1..Len(x) : x[j] = y[j]

\* C1: CompareVersions is a total order on version strings: Compare(a,a) = 0,
\* sign(Compare(a,b)) = -sign(Compare(b,a)), and Compare(a,b) > 0 with
\* Compare(b,c) > 0 implies Compare(a,c) > 0.
C1_TotalOrder ==
    cmpPc = "done" =>
        /\ cmp.aa = 0
        /\ Sign(cmp.ab) = -Sign(cmp.ba)
        /\ (cmp.ab > 0 /\ cmp.bc > 0 => cmp.ac > 0)

\* a descending chain through the empty string: a number above it, a text
\* fragment below it
C1_Witness ==
    /\ cmpPc = "done"
    /\ verA = <<"1">> /\ verB = << >> /\ verC = <<"a">>
    /\ cmp.ab > 0 /\ cmp.bc > 0 /\ cmp.ac > 0

\* C2 as stated: every result of Compare is one of -1, 0, 1.
C2_ResultIsUnit ==
    cmpPc = "done" => cmp.ab \in {-1, 0, 1}

\* C2, amended: the result is -1, 0 or 1 unless the deciding parts are two
\* different text fragments; then it is the non-zero value std::string::compare
\* returns, negative when a's fragment sorts first and positive otherwise.
C2_ResultSign ==
    cmpPc = "done" =>
        LET pa == SplitVersionString(verA)
            pb == SplitVersionString(verB)
            d == DecidingIndex(pa, pb)
        IN  IF d # 0 /\ ClassifyChar(pa[d][1]) = Type_String
                     /\ ClassifyChar(pb[d][1]) = Type_String
            THEN /\ cmp.ab # 0
                 /\ (cmp.ab < 0) = LexBefore(pa[d], pb[d])
            ELSE cmp.ab \in {-1, 0, 1}

\* two different text fragments decide, and the result is not a unit
C2_Witness ==
    /\ cmpPc = "done"
    /\ verA = <<"a">> /\ verB = <<"a", "a", "a">>
    /\ cmp.ab = -2

\* C3: when the parts are pairwise equal up to the shorter sequence, the result
\* is 0 for equal lengths; otherwise the shorter string is greater if the
\* longer one's next part is text, and the longer string is greater if that
\* part is a number or a period.
C3_Remainder ==
    cmpPc = "done" =>
        LET pa == SplitVersionString(verA)
            pb == SplitVersionString(verB)
            n == Min2(Len(pa), Len(pb))
        IN  (\A i \in 1..n : PartsEqual(pa[i], pb[i])) =>
                IF Len(pa) = Len(pb) THEN cmp.ab = 0
                ELSE LET aLonger == Len(pa) > Len(pb)
                         extra == IF aLonger THEN pa[n + 1] ELSE pb[n + 1]
                         longerGreater == IF aLonger THEN cmp.ab > 0 ELSE cmp.ab < 0
                         shorterGreater == IF aLonger THEN cmp.ab < 0 ELSE cmp.ab > 0
                     IN  IF ClassifyChar(extra[1]) = Type_String
                         THEN shorterGreater
                         ELSE longerGreater

\* "1.5" against "1.5b3": the shorter one is greater
C3_Witness ==
    /\ cmpPc = "done"
    /\ verA = <<"1", ".", "5">> /\ verB = <<"1", ".", "5", "b", "3">>
    /\ cmp.ab = 1 /\ cmp.ba = -1

\* the types of the two parts at the deciding position, when they differ
MixedAt(pa, pb, d) ==
    d # 0 /\ ClassifyChar(pa[d][1]) # ClassifyChar(pb[d][1])

\* C18 as stated: where the deciding parts differ in type, a number wins
\* against a text fragment and against a period, and of a period and a text
\* fragment the text fragment wins.
C18_TextBeatsSeparator ==
    cmpPc = "done" =>
        LET pa == SplitVersionString(verA)
            pb == SplitVersionString(verB)
            d == DecidingIndex(pa, pb)
        IN  MixedAt(pa, pb, d) =>
                LET typeA == ClassifyChar(pa[d][1])
                    typeB == ClassifyChar(pb[d][1])
                IN  IF typeA = Type_Number THEN cmp.ab > 0
                    ELSE IF typeB = Type_Number THEN cmp.ab < 0
                    ELSE (cmp.ab > 0) <=> (typeA = Type_String)

\* the standing of a type against the others
Rank(type) ==
    IF type = Type_String THEN 0 ELSE IF type = Type_Period THEN 1 ELSE 2

\* C18, amended: where the deciding parts differ in type, a number wins
\* against a period and against a text fragment, and a period wins against a
\* text fragment; the result is 1 when a's part wins and -1 when b's does.
C18_MixedKinds ==
    cmpPc = "done" =>
        LET pa == SplitVersionString(verA)
            pb == SplitVersionString(verB)
            d == DecidingIndex(pa, pb)
        IN  MixedAt(pa, pb, d) =>
                cmp.ab = IF Rank(ClassifyChar(pa[d][1])) > Rank(ClassifyChar(pb[d][1]))
                         THEN 1 ELSE -1

\* "1.2.0" against "1.2rc1": the period of the first wins against "rc"
C18_Witness ==
    /\ cmpPc = "done"
    /\ verA = <<"1", ".", "2", ".", "0">>
    /\ verB = <<"1", ".", "2", "r", "c", "1">>
    /\ cmp.ab = 1 /\ cmp.ba = -1

\* the parts put together again, in order
RECURSIVE Concatenated(_)
Concatenated(parts) ==
    IF parts = << >> THEN << >>
    ELSE Head(parts) \o Concatenated(Tail(parts))

\* C22: the parts of a version string, put together in order, are the string;
\* every part is non-empty and its characters are of one type; every period
\* is a part of length one; two neighbouring parts differ in type unless both
\* are periods; the empty string has no parts.
C22_Tokenization ==
    cmpPc = "done" =>
        LET parts == SplitVersionString(verA)
        IN  /\ Concatenated(parts) = verA
            /\ verA = << >> => parts = << >>
            /\ \A i \in 1..Len(parts) :
                  /\ parts[i] # << >>
                  /\ \A j \in 1..Len(parts[i]) :
                        ClassifyChar(parts[i][j]) = ClassifyChar(parts[i][1])
                  /\ ClassifyChar(parts[i][1]) = Type_Period => Len(parts[i]) = 1
            /\ \A i \in 1..(Len(parts) - 1) :
                  \/ ClassifyChar(parts[i][1]) # ClassifyChar(parts[i + 1][1])
                  \/ /\ ClassifyChar(parts[i][1]) = Type_Period
                     /\ ClassifyChar(parts[i + 1][1]) = Type_Period

\* "..1" has been split: two periods, each a part, and the number
C22_Witness ==
    /\ cmpPc = "done"
    /\ verA = <<".", ".", "1">>
    /\ SplitVersionString(verA) = << <<".">>, <<".">>, <<"1">> >>

-----------------------------------------------------------------------------
(* Claims about one check cycle *)

\* the positions of event e in the cycle's log
Positions(e) == {i \in 1..Len(log) : log[i] = e}
Happened(e) == Positions(e) # {}
\* every e of the log has an earlier f
Preceded(e, f) == \A i \in Positions(e) : \E j \in Positions(f) : j < i

Notifications == {"NoUpdates", "UpdateAvailable", "UpdateError"}
Notified == {i \in 1..Len(log) : log[i] \in Notifications}

\* PerformUpdateCheck has returned or has thrown
CycleEnded == pc \in {"Returned", "Threw"}

\* the candidate's URLs went through the gate unrejected
CandidatePassedGate ==
    /\ appcast.chosen
    /\ appcast.entry.ReleaseNotesURL \in {UrlEmpty, UrlSecure}
    /\ appcast.entry.DownloadURL \in {UrlEmpty, UrlSecure}

CandidateNewer ==
    /\ appcast.chosen
    /\ CompareVersions(currentVersion, appcast.entry.Version) < 0

\* the candidate has just been chosen: all is sorted, feed is the list that
\* was sorted
JustSelected == pc = "GateCandidate"

\* the filter has just run: feed is what was loaded, all what is kept
JustFiltered == pc = "SortFeed" \/ (pc = "Returned" /\ ~appcast.chosen)

\* after is before rearranged, ascending by Version, entries of equal rank in
\* the order they had
StablySorted(prior, after) ==
    /\ Len(after) = Len(prior)
    /\ \E p \in [1..Len(prior) -> 1..Len(prior)] :
        /\ \A i, j \in 1..Len(prior) : i # j => p[i] # p[j]
        /\ \A i \in 1..Len(prior) : after[i] = prior[p[i]]
        /\ \A i, j \in 1..Len(prior) : i < j =>
              LET c == CompareVersions(after[i].Version, after[j].Version)
              IN  c < 0 \/ (c = 0 /\ p[i] < p[j])

C6_CriticalNotified ==
    (CycleEnded /\ CandidateNewer /\ appcast.entry.CriticalUpdate
                /\ IsValid(appcast.entry))
        => Happened("UpdateAvailable")

\* C6, amended: a cycle whose chosen candidate is critical, valid, newer than
\* the current version and whose non-empty URLs pass the gate notifies
\* UpdateAvailable, whatever the stored skip-version and forceShow are.
C6_CriticalNeverSkipped ==
    (CycleEnded /\ CandidateNewer /\ appcast.entry.CriticalUpdate
                /\ IsValid(appcast.entry) /\ CandidatePassedGate)
        => /\ pc = "Returned"
           /\ Notified = {Len(log)}
           /\ log[Len(log)] = "UpdateAvailable"

\* a background cycle notifies a critical update whose version is the stored
\* skip-version
C6_Witness ==
    /\ pc = "Returned"
    /\ ~show_dialog
    /\ appcast.chosen /\ appcast.entry.CriticalUpdate
    /\ toSkip = Stored(appcast.entry.Version)
    /\ Happened("UpdateAvailable")

\* the stored skip-version is the candidate's and nothing forces the dialog
SkipApplies ==
    /\ toSkip.set
    /\ toSkip.value = appcast.entry.Version
    /\ ~show_dialog

\* C7 as stated: with a non-critical candidate newer than the current
\* version the cycle ends with no notification iff the stored skip-version is
\* the candidate's and forceShow is false; a manual check always notifies
\* UpdateAvailable.
C7_SkipIff ==
    (CycleEnded /\ CandidateNewer /\ ~appcast.entry.CriticalUpdate)
        => /\ (Notified = {}) <=> SkipApplies
           /\ mode = "Manual" => Happened("UpdateAvailable")

\* C7, amended: the same for a candidate that is also valid and whose
\* non-empty URLs pass the gate.
C7_SkipIffPastGate ==
    (CycleEnded /\ CandidateNewer /\ ~appcast.entry.CriticalUpdate
                /\ IsValid(appcast.entry) /\ CandidatePassedGate)
        => /\ pc = "Returned"
           /\ (Notified = {}) <=> SkipApplies
           /\ ~SkipApplies => (Notified = {Len(log)}
                               /\ log[Len(log)] = "UpdateAvailable")
           /\ mode = "Manual" => Happened("UpdateAvailable")
           /\ show_dialog <=> mode = "Manual"

\* a background cycle ends without a word about the skipped version
C7_Witness ==
    /\ pc = "Returned"
    /\ mode = "OneShot"
    /\ CandidateNewer /\ ~appcast.entry.CriticalUpdate
    /\ toSkip = Stored(appcast.entry.Version)
    /\ Notified = {}
    /\ Happened("write:LastCheckTime")

\* the cycle ended before the point where the time of the check is recorded
EndedEarly ==
    /\ CycleEnded
    /\ \/ url = UrlEmpty
       \/ Happened("reject:feed")
       \/ pc = "Threw" /\ log[Len(log)] \in {"fetch:feed", "UpdateError"}
                       /\ ~appcast.chosen
       \/ pc = "Returned" /\ ~appcast.chosen
       \/ Happened("reject:notes")
       \/ Happened("reject:download")

\* C8: the last-check time is written at most once per cycle, and only after
\* a candidate is chosen and its non-empty URLs have passed the gate; a cycle
\* that ends earlier leaves it as it was.
C8_TimestampFrame ==
    /\ Cardinality(Positions("write:LastCheckTime")) <= 1
    /\ Happened("write:LastCheckTime") =>
          /\ CandidatePassedGate
          /\ appcast.entry.ReleaseNotesURL # UrlEmpty
                => Preceded("write:LastCheckTime", "pass:notes")
          /\ appcast.entry.DownloadURL # UrlEmpty
                => Preceded("write:LastCheckTime", "pass:download")
    /\ ~Happened("write:LastCheckTime") => lastCheckTime = lastCheckOnEntry
    /\ EndedEarly => ~Happened("write:LastCheckTime")

\* the time has been written, after both URLs passed
C8_Witness ==
    /\ pc = "JudgeOutdated"
    /\ log = <<"pass:feed", "fetch:feed", "fetch:probe", "pass:notes",
               "pass:download", "write:LastCheckTime">>
    /\ lastCheckTime = Stored(now)
    /\ lastCheckOnEntry # lastCheckTime

\* C9: the feed is fetched only after its URL passed the gate; UpdateAvailable
\* is notified only for a candidate whose non-empty URLs passed; after a
\* rejection there is no fetch, no timestamp write and no NoUpdate or
\* UpdateAvailable, and the cycle ends as an error.
C9_GateOrder ==
    /\ Preceded("fetch:feed", "pass:feed")
    /\ Happened("UpdateAvailable") =>
          /\ CandidatePassedGate
          /\ appcast.entry.ReleaseNotesURL # UrlEmpty
                => Preceded("UpdateAvailable", "pass:notes")
          /\ appcast.entry.DownloadURL # UrlEmpty
                => Preceded("UpdateAvailable", "pass:download")
    /\ \A i \in 1..Len(log) :
          log[i] \in {"reject:feed", "reject:notes", "reject:download"} =>
              /\ \A j \in (i + 1)..Len(log) : log[j] = "UpdateError"
              /\ pc \in {"Catch", "Threw", "Dead"}
              /\ exc # "none"

\* the download URL is rejected after the feed was fetched: the cycle throws
C9_Witness ==
    /\ pc = "Threw"
    /\ log = <<"pass:feed", "fetch:feed", "fetch:probe", "pass:notes",
               "reject:download", "UpdateError">>

\* C13 as stated: a failed cycle notifies an error iff forceShow is true,
\* whatever kind of failure it was.
C13_ErrorIffForceShow ==
    pc = "Threw" => (Happened("UpdateError") <=> show_dialog)

\* the cycle returned without a word: the silent-skip path
SilentSkip ==
    /\ ~show_dialog
    /\ appcast.chosen /\ ~appcast.entry.CriticalUpdate
    /\ toSkip.set /\ toSkip.value = appcast.entry.Version
    /\ Happened("write:LastCheckTime")

\* C14: a cycle that ends without an error has made exactly one notification,
\* NoUpdate or UpdateAvailable, as its last act, unless it went the
\* silent-skip path, the only one that reports nothing; and no cycle, failed
\* or not, makes two notifications.
C14_OneOutcome ==
    /\ Cardinality(Notified) <= 1
    /\ pc = "Returned" =>
          IF Notified = {}
          THEN SilentSkip
          ELSE /\ Notified = {Len(log)}
               /\ log[Len(log)] \in {"NoUpdates", "UpdateAvailable"}

\* a manual check reports the very version that is stored as skipped, once
C14_Witness ==
    /\ pc = "Returned"
    /\ show_dialog
    /\ toSkip = Stored(appcast.entry.Version)
    /\ Notified = {Len(log)}
    /\ log[Len(log)] = "UpdateAvailable"

\* C15: once the candidate is chosen and the time recorded, the outcome is
\* NoUpdate whenever the candidate is invalid or Compare(currentVersion,
\* candidate.Version) >= 0; UpdateAvailable is notified only for a valid
\* entry strictly newer than the current version that the baseline filter
\* kept.
C15_OutdatedJudgment ==
    /\ (/\ pc = "Returned"
        /\ Happened("write:LastCheckTime")
        /\ \/ ~IsValid(appcast.entry)
           \/ CompareVersions(currentVersion, appcast.entry.Version) >= 0)
          => (Notified = {Len(log)} /\ log[Len(log)] = "NoUpdates")
    /\ Happened("UpdateAvailable") =>
          /\ appcast.chosen
          /\ IsValid(appcast.entry)
          /\ CompareVersions(currentVersion, appcast.entry.Version) < 0
          /\ CompareVersions(current_server_version,
                             appcast.entry.MinServerVersion) >= 0

\* the candidate is of the very version that runs: no update, time recorded
C15_Witness ==
    /\ pc = "Returned"
    /\ currentVersion = <<"2">>
    /\ appcast.chosen /\ appcast.entry.Version = <<"2">>
    /\ lastCheckTime = Stored(now)
    /\ log[Len(log)] = "NoUpdates"

\* the gate event that lets a fetch go ahead
GateOf(fetch) ==
    IF fetch = "fetch:feed" THEN "pass:feed" ELSE "pass:probe"

\* C19 as stated: every fetch a cycle makes, the probe's request for the
\* server's version included, comes after its URL passed the security gate.
C19_NoUngatedFetch ==
    \A i \in 1..Len(log) :
        log[i] \in {"fetch:feed", "fetch:probe"} =>
            \E j \in 1..(i - 1) : log[j] = GateOf(log[i])

-----------------------------------------------------------------------------
(* Claims about the callback table *)

\* the functions that take the lock and have a default: the readiness query,
\* the shutdown request and the notifications
Defaulting == {"IsReadyToShutdown", "RequestShutdown"} \cup Notifiers

\* C16: with no handler registered IsReadyToShutdown returns true and
\* RequestShutdown and every notification call nothing; with a handler
\* registered one call invokes it exactly once, and IsReadyToShutdown returns
\* true iff the handler returned non-zero. What the call saw of the pointer
\* is what the table holds until the call lets go of the lock.
C16_HandlerDefaults ==
    hostCall.fn \in Defaulting =>
        /\ hostCall.pc \in {"Invoke", "Default"} =>
              /\ ms_csVars = Caller
              /\ hostCall.seen = ms_cb[SlotOf(hostCall.fn)]
        /\ hostCall.pc = "Returned" =>
              /\ hostCall.invoked = IF hostCall.seen THEN 1 ELSE 0
              /\ hostCall.ret =
                    IF hostCall.fn # "IsReadyToShutdown" THEN RetVoid
                    ELSE IF hostCall.seen THEN RetBool(hostCall.handlerRet # 0)
                    ELSE RetBool(TRUE)

\* C21 as stated: every function of ApplicationController reads its pointer
\* only while it holds the table's critical section.
C21_ReadsUnderLock ==
    hostCall.pc \in {"Test", "Invoke"} => ms_csVars = Caller

\* the readiness handler answered 2 and IsReadyToShutdown returned true
C16_Witness ==
    /\ hostCall.fn = "IsReadyToShutdown"
    /\ hostCall.pc = "Returned"
    /\ hostCall.seen /\ hostCall.invoked = 1
    /\ hostCall.handlerRet = 2
    /\ hostCall.ret = RetBool(TRUE)

-----------------------------------------------------------------------------
(* Claims about the Run() methods *)

\* C17: every Run() signals readiness before its first cycle and so before
\* any fetch; the Manual and the OneShot thread run one cycle, with forceShow
\* true and false, and are at their end only after it.
C17_ReadyThenOneCycle ==
    /\ (cycles > 0 \/ Happened("fetch:feed") \/ Happened("fetch:probe")) => ready
    /\ mode # "Periodic" =>
          /\ cycles <= 1
          /\ cycles = 1 => (show_dialog <=> mode = "Manual")
          /\ pc \in {"Done", "Dead"} => cycles = 1
          /\ cycles = 0 => pc \in {"Run", "Call"}

\* the Manual thread is at its end, after one cycle that fetched the feed
C17_Witness ==
    /\ mode = "Manual" /\ pc = "Done"
    /\ ready /\ cycles = 1 /\ show_dialog
    /\ Happened("fetch:feed")

-----------------------------------------------------------------------------
(* Claims about the Periodic loop *)

\* C11 as stated: once the terminate event is signalled, while the Periodic
\* thread waits or before it begins to, the thread runs no further cycle.
C11_NoCycleAfterSignal ==
    m_terminateEvent => pc \in {"Loop", "Wait"}

\* C20 as stated: the Periodic thread starts a cycle only at a moment when
\* the stored time of the last check plus the interval is not after now,
\* also with a manual check writing that time beside it.
C20_DueAtStart ==
    (mode = "Periodic" /\ pc = "CheckFeedURL") =>
        now >= StoredOrZero(lastCheckOnEntry) + turn.interval

\* C12 as stated: a cycle that fails does not end the Periodic loop.
C12_SchedulerSurvives ==
    mode = "Periodic" => pc # "Dead"

\* C10: a turn with checking disabled runs no cycle and waits an hour; an
\* enabled turn with now >= lastCheckTime + interval runs one cycle with
\* forceShow = false and then waits the interval; an enabled turn before that
\* time runs no cycle and waits lastCheckTime + interval - now seconds.
C10_TurnDecision ==
    /\ ~(mode = "Periodic" /\ pc = "Dead")
    /\ pc = "Wait" =>
          LET timeout == WaitTimeout(turn.sleepTimeInSeconds)
              due == turn.currentTime >= turn.lastCheck + turn.interval
              Waits(seconds) == timeout = [sec |-> seconds, ms |-> 0]
          IN  IF ~turn.checkUpdates
              THEN turn.cycles = 0 /\ Waits(3600)
              ELSE IF due
              THEN turn.cycles = 1 /\ ~show_dialog /\ Waits(turn.interval)
              ELSE /\ turn.cycles = 0
                   /\ Waits(turn.lastCheck + turn.interval - turn.currentTime)

====
